---------------------------- MODULE Spec2Model ----------------------------
(***************************************************************************)
(* A model of the BMI160 driver (bmi160.py).                               *)
(*                                                                         *)
(* The driver talks to the device through register descriptors of the      *)
(* adafruit_register library:                                              *)
(*   UnaryStruct(addr, "B")  get: one register read; set: one write.       *)
(*   RWBits(n, addr, lo)     get: one read, (byte & mask) >> lo;           *)
(*                           set: value <<= lo, one read, byte &= ~mask,   *)
(*                                byte |= value, low 8 bits written back.  *)
(* The bus is a register file: the configuration registers and CMD keep    *)
(* the last byte written; WHOAMI, the data registers and the status        *)
(* registers (ERR, PMU_STATUS, TEMPERATURE) are inputs, each read returns  *)
(* a byte the device chooses.                                              *)
(*                                                                         *)
(* Every public method is one action.  A call leaves behind:               *)
(*   call    the method and its argument,                                  *)
(*   result  what it returned or raised,                                   *)
(*   busLog  the bus transactions and sleeps it made, in order,            *)
(*   printed the lines it printed, in order,                               *)
(*   pre     the register file as it was when the call started.            *)
(* lastAccRange is the value most recently handed to the acceleration      *)
(* range setter (-1 before the first such call); lastOdr holds the values   *)
(* most recently handed to the two output-data-rate setters (-1 likewise)  *)
(* and whether a setter of another field of the same register was called   *)
(* since;                                                                  *)
(* ncalls counts the calls of a configuration scenario.                    *)
(***************************************************************************)
EXTENDS Integers, Sequences, FiniteSets, TLC

VARIABLES phase, reg, pre, call, result, busLog, printed, ncalls, lastAccRange,
          lastOdr

vars == <<phase, reg, pre, call, result, busLog, printed, ncalls, lastAccRange,
          lastOdr>>

---------------------------------------------------------------------------
(* Register addresses and command bytes (decimal; hex in the comment).     *)

REG_WHOAMI == 0
\* 0x00
COMMAND == 126
\* 0x7E
ACCEL_CONFIG == 64
\* 0x40
ACC_RANGE == 65
\* 0x41
GYRO_CONFIG == 66
\* 0x42
GYRO_RANGE == 67
\* 0x43
RESET_COMMAND == 182
\* 0xB6
DEVICE_ID == 209
\* 0xD1
INIT_COMMAND == 3
\* 0x03, the byte __init__ writes to CMD after the reset
ERROR_CODE == 2
\* 0x02
PMU_STATUS == 3
\* 0x03, the register behind _power_mode
TEMP_LSB == 32
\* 0x20
TEMP_MSB == 33
\* 0x21

ACCEL_RANGE_2G == 3
ACCEL_RANGE_4G == 5
ACCEL_RANGE_8G == 8
ACCEL_RANGE_16G == 12

ACC_X_LSB == 18
ACC_X_MSB == 19
ACC_Y_LSB == 20
ACC_Y_MSB == 21
ACC_Z_LSB == 22
ACC_Z_MSB == 23

ACC_POWER_SUSPEND == 16
ACC_POWER_NORMAL == 17
ACC_POWER_LOWPOWER == 18

GYRO_X_LSB == 12
GYRO_X_MSB == 13
GYRO_Y_LSB == 14
GYRO_Y_MSB == 15
GYRO_Z_LSB == 16
GYRO_Z_MSB == 17

GYRO_POWER_SUSPEND == 20
GYRO_POWER_NORMAL == 21
GYRO_POWER_FASTSTARTUP == 23
gyro_power_modes == {GYRO_POWER_SUSPEND, GYRO_POWER_NORMAL, GYRO_POWER_FASTSTARTUP}

GYRO_RANGE_2000 == 0
GYRO_RANGE_1000 == 1
GYRO_RANGE_500 == 2
GYRO_RANGE_250 == 3
GYRO_RANGE_125 == 4
gyro_values == {GYRO_RANGE_125, GYRO_RANGE_250, GYRO_RANGE_500, GYRO_RANGE_1000, GYRO_RANGE_2000}

\* time.sleep(0.015) and time.sleep(0.1), in milliseconds
SOFT_RESET_SLEEP_MS == 15
POWER_MODE_SLEEP_MS == 100

ConfigRegs == {COMMAND, ACCEL_CONFIG, ACC_RANGE, GYRO_CONFIG, GYRO_RANGE}

---------------------------------------------------------------------------
(* Bytes and bit operations, as Python's integer operators compute them.   *)

Pow2(n) == 2^n

RECURSIVE BitAnd(_, _)
\* a & m, for non-negative a and m
BitAnd(a, m) ==
  IF a = 0 \/ m = 0 THEN 0
  ELSE (a % 2) * (m % 2) + 2 * BitAnd(a \div 2, m \div 2)

\* a & ~m, for non-negative a and m
BitAndNot(a, m) == a - BitAnd(a, m)

\* a | b, for non-negative a and b
BitOr(a, b) == a + b - BitAnd(a, b)

---------------------------------------------------------------------------
(* Bus events.                                                             *)

Rd(a, v) == [k |-> "read", a |-> a, v |-> v]
Wr(a, v) == [k |-> "write", a |-> a, v |-> v]
Sleep(ms) == [k |-> "sleep", a |-> 0, v |-> ms]

\* what a call hands back: the outcome, the events, the register file after,
\* the lines printed
OutP(res, log, r, out) == [res |-> res, log |-> log, reg |-> r, out |-> out]

\* the same for a call that prints nothing
Out(res, log, r) == OutP(res, log, r, <<>>)

\* Python values the methods return: None, an int, a str, a 3-tuple of quotients
PyNone == [t |-> "none", i |-> 0, s |-> "", xyz |-> <<>>]
PyInt(n) == [t |-> "int", i |-> n, s |-> "", xyz |-> <<>>]
PyStr(str) == [t |-> "str", i |-> 0, s |-> str, xyz |-> <<>>]
PyTuple(x, y, z) == [t |-> "tuple", i |-> 0, s |-> "", xyz |-> <<x, y, z>>]
PyFloat(q) == [t |-> "float", i |-> 0, s |-> "", xyz |-> <<q>>]

\* n / d, kept as the exact quotient
Quot(n, d) == [num |-> n, den |-> d]

\* q + k for a quotient q and an integer k
QuotAdd(q, k) == Quot(q.num + k * q.den, q.den)

Ok(val) == [kind |-> "ok", err |-> "", val |-> val]
Raise(err) == [kind |-> "raise", err |-> err, val |-> PyNone]

---------------------------------------------------------------------------
(* The register descriptors.                                               *)

\* UnaryStruct.__set__: one write of the byte to the register
UnarySet(r, addr, value) ==
  [log |-> <<Wr(addr, value)>>, reg |-> [r EXCEPT ![addr] = value]]

\* RWBits.bit_mask
RWBitsMask(n, lo) == (Pow2(n) - 1) * Pow2(lo)

\* RWBits.__get__ applied to the byte read
RWBitsGet(n, lo, byte) == BitAnd(byte, RWBitsMask(n, lo)) \div Pow2(lo)

\* RWBits.__set__: the byte written back for the byte read and the value given
RWBitsNewByte(n, lo, byte, value) ==
  BitOr(BitAndNot(byte, RWBitsMask(n, lo)), value * Pow2(lo)) % 256

\* RWBits.__set__: one read, then one write of the merged byte
RWBitsSet(r, n, addr, lo, value) ==
  LET nb == RWBitsNewByte(n, lo, r[addr], value)
  IN [log |-> <<Rd(addr, r[addr]), Wr(addr, nb)>>, reg |-> [r EXCEPT ![addr] = nb]]

---------------------------------------------------------------------------
(* Reset and construction.                                                 *)

\* soft_reset with the sleep left out
soft_reset_no_sleep(r) ==
  LET w == UnarySet(r, COMMAND, RESET_COMMAND)
  IN Out(Ok(PyNone), w.log, w.reg)

\* soft_reset: the reset command, then the settle time
soft_reset(r) ==
  LET w == UnarySet(r, COMMAND, RESET_COMMAND)
  IN Out(Ok(PyNone), w.log \o <<Sleep(SOFT_RESET_SLEEP_MS)>>, w.reg)

\* the command written, but only the reset's settle time waited
WriteCommandShortSleep(r, value) ==
  LET w == UnarySet(r, COMMAND, value)
  IN [log |-> w.log \o <<Sleep(SOFT_RESET_SLEEP_MS)>>, reg |-> w.reg]

\* self._read = value; time.sleep(0.1)
WriteCommand(r, value) ==
  LET w == UnarySet(r, COMMAND, value)
  IN [log |-> w.log \o <<Sleep(POWER_MODE_SLEEP_MS)>>, reg |-> w.reg]

\* an identity test that ignores the low nibble
DeviceIdOkHighNibble(id) == id \div 16 = DEVICE_ID \div 16

\* the identity test of __init__
DeviceIdOk(id) == id = DEVICE_ID

\* a constructor that starts the gyroscope before the accelerometer
init_gyro_first(r, id) ==
  IF ~DeviceIdOk(id)
  THEN Out(Raise("RuntimeError"), <<Rd(REG_WHOAMI, id)>>, r)
  ELSE LET s0 == soft_reset(r)
           s1 == WriteCommand(s0.reg, INIT_COMMAND)
           s2 == WriteCommand(s1.reg, GYRO_POWER_NORMAL)
           s3 == WriteCommand(s2.reg, ACC_POWER_NORMAL)
       IN Out(Ok(PyNone),
              <<Rd(REG_WHOAMI, id)>> \o s0.log \o s1.log \o s2.log \o s3.log,
              s3.reg)

\* __init__ for a device whose WHOAMI register reads id
init(r, id) ==
  IF ~DeviceIdOk(id)
  THEN Out(Raise("RuntimeError"), <<Rd(REG_WHOAMI, id)>>, r)
  ELSE LET s0 == soft_reset(r)
           s1 == WriteCommand(s0.reg, INIT_COMMAND)
           s2 == WriteCommand(s1.reg, ACC_POWER_NORMAL)
           s3 == WriteCommand(s2.reg, GYRO_POWER_NORMAL)
       IN Out(Ok(PyNone),
              <<Rd(REG_WHOAMI, id)>> \o s0.log \o s1.log \o s2.log \o s3.log,
              s3.reg)

---------------------------------------------------------------------------
(* Power modes.                                                            *)

\* acc_power_mode(value): no test of the value
acc_power_mode(r, value) ==
  LET w == WriteCommand(r, value)
  IN Out(Ok(PyNone), w.log, w.reg)

\* the membership test of the gyro_power_mode setter
GyroPowerModeValid(value) == value \in gyro_power_modes

\* gyro_power_mode setter
gyro_power_mode_setter(r, value) ==
  IF ~GyroPowerModeValid(value)
  THEN Out(Raise("ValueError"), <<>>, r)
  ELSE LET w == WriteCommand(r, value)
       IN Out(Ok(PyNone), w.log, w.reg)

---------------------------------------------------------------------------
(* Ranges.                                                                 *)

\* acceleration_range getter: the 4-bit field of ACC_RANGE
acceleration_range_getter(r) ==
  Out(Ok(PyInt(RWBitsGet(4, 0, r[ACC_RANGE]))), <<Rd(ACC_RANGE, r[ACC_RANGE])>>, r)

\* acceleration_range setter: no test of the value
acceleration_range_setter(r, value) ==
  LET w == RWBitsSet(r, 4, ACC_RANGE, 0, value)
  IN Out(Ok(PyNone), w.log, w.reg)

\* the tuple the gyro_range getter indexes (Python index k is g_values[k + 1])
g_values ==
  <<"GYRO_RANGE_125", "GYRO_RANGE_250", "GYRO_RANGE_500", "GYRO_RANGE_1000", "GYRO_RANGE_2000">>

\* gyro_range getter: the name at the index the 3-bit field of GYRO_RANGE gives
gyro_range_getter(r) ==
  LET f == RWBitsGet(3, 0, r[GYRO_RANGE])
      log == <<Rd(GYRO_RANGE, r[GYRO_RANGE])>>
  IN IF f + 1 \in DOMAIN g_values
     THEN Out(Ok(PyStr(g_values[f + 1])), log, r)
     ELSE Out(Raise("IndexError"), log, r)

\* a test that only asks whether the value fits the 3-bit field
GyroRangeFitsField(value) == value \in 0..7

\* the membership test of the gyro_range setter
GyroRangeValid(value) == value \in gyro_values

\* gyro_range setter
gyro_range_setter(r, value) ==
  IF ~GyroRangeValid(value)
  THEN Out(Raise("ValueError"), <<>>, r)
  ELSE LET w == RWBitsSet(r, 3, GYRO_RANGE, 0, value)
       IN Out(Ok(PyNone), w.log, w.reg)

---------------------------------------------------------------------------
(* Measurements.                                                           *)

\* the table with the 4G and 8G divisors exchanged
acceleration_scale_swapped ==
  (ACCEL_RANGE_2G :> 16384) @@ (ACCEL_RANGE_4G :> 4096) @@
  (ACCEL_RANGE_8G :> 8192) @@ (ACCEL_RANGE_16G :> 2048)

\* LSB per g for each range code
acceleration_scale ==
  (ACCEL_RANGE_2G :> 16384) @@ (ACCEL_RANGE_4G :> 8192) @@
  (ACCEL_RANGE_8G :> 4096) @@ (ACCEL_RANGE_16G :> 2048)

\* LSB per deg/s for each range code, times ten (16.4, 32.8, 65.6, 131.2, 262.4)
gyro_scale_x10 == (0 :> 164) @@ (1 :> 328) @@ (2 :> 656) @@ (3 :> 1312) @@ (4 :> 2624)

\* key in dict, for a dict whose keys are ints
DictHas(d, key) == key.t = "int" /\ key.i \in DOMAIN d

\* msb * 256 + lsb
Compose(msb, lsb) == msb * 256 + lsb

\* the six data reads, in the order the expressions evaluate them
DataLog(d, xm, xl, ym, yl, zm, zl) ==
  <<Rd(xm, d.x[1]), Rd(xl, d.x[2]), Rd(ym, d.y[1]), Rd(yl, d.y[2]),
    Rd(zm, d.z[1]), Rd(zl, d.z[2])>>

\* acceleration: d gives the <<msb, lsb>> the device returns for each axis
acceleration(r, d) ==
  LET g == acceleration_range_getter(r)
  IN IF ~DictHas(acceleration_scale, g.res.val)
     THEN Out(Raise("KeyError"), g.log, r)
     ELSE LET factor == acceleration_scale[g.res.val.i]
          IN Out(Ok(PyTuple(Quot(Compose(d.x[1], d.x[2]), factor),
                            Quot(Compose(d.y[1], d.y[2]), factor),
                            Quot(Compose(d.z[1], d.z[2]), factor))),
                 g.log \o DataLog(d, ACC_X_MSB, ACC_X_LSB, ACC_Y_MSB, ACC_Y_LSB,
                                  ACC_Z_MSB, ACC_Z_LSB),
                 r)

\* gyro: the scale is looked up with what the gyro_range getter returns
gyro(r, d) ==
  LET g == gyro_range_getter(r)
  IN IF g.res.kind = "raise"
     THEN g
     ELSE IF ~DictHas(gyro_scale_x10, g.res.val)
     THEN Out(Raise("KeyError"), g.log, r)
     ELSE LET factor10 == gyro_scale_x10[g.res.val.i]
          IN Out(Ok(PyTuple(Quot(Compose(d.x[1], d.x[2]) * 10, factor10),
                            Quot(Compose(d.y[1], d.y[2]) * 10, factor10),
                            Quot(Compose(d.z[1], d.z[2]) * 10, factor10))),
                 g.log \o DataLog(d, GYRO_X_MSB, GYRO_X_LSB, GYRO_Y_MSB, GYRO_Y_LSB,
                                  GYRO_Z_MSB, GYRO_Z_LSB),
                 r)

---------------------------------------------------------------------------
(* Configuration fields of ACC_CONF and GYRO_CONF.  No setter tests its    *)
(* value.                                                                  *)

\* acceleration_undersample: _acc_us = RWBits(1, _ACCEL_CONFIG, 7)
acceleration_undersample_getter(r) ==
  Out(Ok(PyInt(RWBitsGet(1, 7, r[ACCEL_CONFIG]))), <<Rd(ACCEL_CONFIG, r[ACCEL_CONFIG])>>, r)

acceleration_undersample_setter(r, value) ==
  LET w == RWBitsSet(r, 1, ACCEL_CONFIG, 7, value)
  IN Out(Ok(PyNone), w.log, w.reg)

\* acceleration_bandwidth_parameter: _acc_bwp = RWBits(1, _ACCEL_CONFIG, 6)
acceleration_bandwidth_parameter_getter(r) ==
  Out(Ok(PyInt(RWBitsGet(1, 6, r[ACCEL_CONFIG]))), <<Rd(ACCEL_CONFIG, r[ACCEL_CONFIG])>>, r)

acceleration_bandwidth_parameter_setter(r, value) ==
  LET w == RWBitsSet(r, 1, ACCEL_CONFIG, 6, value)
  IN Out(Ok(PyNone), w.log, w.reg)

\* the accel rate setter with a field of 3 bits instead of 4
acceleration_output_data_rate_setter_3bit(r, value) ==
  LET w == RWBitsSet(r, 3, ACCEL_CONFIG, 0, value)
  IN Out(Ok(PyNone), w.log, w.reg)

\* acceleration_output_data_rate: _acc_odr = RWBits(4, _ACCEL_CONFIG, 0)
acceleration_output_data_rate_getter(r) ==
  Out(Ok(PyInt(RWBitsGet(4, 0, r[ACCEL_CONFIG]))), <<Rd(ACCEL_CONFIG, r[ACCEL_CONFIG])>>, r)

acceleration_output_data_rate_setter(r, value) ==
  LET w == RWBitsSet(r, 4, ACCEL_CONFIG, 0, value)
  IN Out(Ok(PyNone), w.log, w.reg)

\* gyro_output_data_rate: _gyro_odr = RWBits(4, _GYRO_CONFIG, 0)
gyro_output_data_rate_getter(r) ==
  Out(Ok(PyInt(RWBitsGet(4, 0, r[GYRO_CONFIG]))), <<Rd(GYRO_CONFIG, r[GYRO_CONFIG])>>, r)

gyro_output_data_rate_setter(r, value) ==
  LET w == RWBitsSet(r, 4, GYRO_CONFIG, 0, value)
  IN Out(Ok(PyNone), w.log, w.reg)

\* gyro_bandwidth_parameter: _gyro_bwp = RWBits(2, _GYRO_CONFIG, 4)
gyro_bandwidth_parameter_getter(r) ==
  Out(Ok(PyInt(RWBitsGet(2, 4, r[GYRO_CONFIG]))), <<Rd(GYRO_CONFIG, r[GYRO_CONFIG])>>, r)

gyro_bandwidth_parameter_setter(r, value) ==
  LET w == RWBitsSet(r, 2, GYRO_CONFIG, 4, value)
  IN Out(Ok(PyNone), w.log, w.reg)

---------------------------------------------------------------------------
(* The status methods.  A printed line is the tuple of print's arguments.  *)

\* the table of error_code()
code_errors ==
  [k \in {0, 1, 2, 3, 6, 7} |->
     CASE k = 0 -> "No Error"
       [] k = 1 -> "Error"
       [] k = 2 -> "Error"
       [] k = 3 -> "low-power mode and interrupt uses pre-filtered data"
       [] k = 6 -> "ODRs of enabled sensors in header-less mode do not match"
       [] k = 7 -> "pre-filtered data are used in low power mode"]

\* error_code(), errors being the byte the ERR register returns
error_code(r, errors) ==
  LET drop_cmd_err == BitAnd(errors, 64) \div 64
      error_codes == BitAnd(errors, 30) \div 2
      fatal_error == BitAnd(errors, 1)
      log == <<Rd(ERROR_CODE, errors)>>
      p1 == IF drop_cmd_err # 0 THEN <<(<<"Drop Command Error">>)>> ELSE <<>>
  IN IF error_codes \notin DOMAIN code_errors
     THEN OutP(Raise("KeyError"), log, r, p1)
     ELSE LET p2 == IF code_errors[error_codes] # "No Error"
                    THEN <<(<<code_errors[error_codes]>>)>> ELSE <<>>
              p3 == IF fatal_error # 0 THEN <<(<<"Fatal Error">>)>> ELSE <<>>
          IN OutP(Ok(PyNone), log, r, p1 \o p2 \o p3)

\* the tables of power_mode_status()
acc_pmu_codes == <<"Suspend", "Normal", "Low Power">>
\* keys 0, 1, 2
gyr_pmu_codes == [k \in {0, 1, 3} |->
                   CASE k = 0 -> "Suspend" [] k = 1 -> "Normal" [] k = 3 -> "Fast Start - Up"]
mag_pmu_codes == <<"Suspend", "Normal", "Low Power">>
\* keys 0, 1, 2

\* power_mode_status(), values being the byte the PMU_STATUS register returns
power_mode_status(r, values) ==
  LET acc_pmu_status == BitAnd(values, 24) \div 16
      gyr_pmu_status == BitAnd(values, 12) \div 4
      mag_pmu_status == BitAnd(values, 3)
      log == <<Rd(PMU_STATUS, values)>>
      p1 == <<(<<"Acceleration Power Mode: ", acc_pmu_codes[acc_pmu_status + 1]>>)>>
  IN IF acc_pmu_status \notin 0..2
     THEN OutP(Raise("KeyError"), log, r, <<>>)
     ELSE IF gyr_pmu_status \notin DOMAIN gyr_pmu_codes
     THEN OutP(Raise("KeyError"), log, r, p1)
     ELSE LET p2 == <<(<<"Gyro Power Mode", gyr_pmu_codes[gyr_pmu_status]>>)>>
          IN IF mag_pmu_status \notin 0..2
             THEN OutP(Raise("KeyError"), log, r, p1 \o p2)
             ELSE OutP(Ok(PyNone), log, r,
                       p1 \o p2 \o <<(<<"Mag Power Mode", mag_pmu_codes[mag_pmu_status + 1]>>)>>)

\* a temperature with a resolution of 1/2**8
temperature_per_256(r, msb, lsb) ==
  Out(Ok(PyFloat(QuotAdd(Quot(Compose(msb, lsb) * 1, 256), 23))),
      <<Rd(TEMP_MSB, msb), Rd(TEMP_LSB, lsb)>>, r)

\* temperature getter: ((msb * 256 + lsb) * 1 / 2**9) + 23, msb read first
temperature(r, msb, lsb) ==
  Out(Ok(PyFloat(QuotAdd(Quot(Compose(msb, lsb) * 1, Pow2(9)), 23))),
      <<Rd(TEMP_MSB, msb), Rd(TEMP_LSB, lsb)>>, r)

\* the table of the gyro_power_mode getter
g_power_modes ==
  [k \in {20, 21, 23} |->
     CASE k = 20 -> "GYRO_POWER_SUSPEND"
       [] k = 21 -> "GYRO_POWER_NORMAL"
       [] k = 23 -> "GYRO_POWER_FASTSTARTUP"]

\* gyro_power_mode getter: g_power_modes[self._read], a read of CMD
gyro_power_mode_getter(r) ==
  LET log == <<Rd(COMMAND, r[COMMAND])>>
  IN IF r[COMMAND] \in DOMAIN g_power_modes
     THEN Out(Ok(PyStr(g_power_modes[r[COMMAND]])), log, r)
     ELSE Out(Raise("KeyError"), log, r)

---------------------------------------------------------------------------
(* Bounds and input sets.                                                  *)

\* bytes the configuration registers hold before the driver is attached
FillBytes == {3, 255}

\* what the WHOAMI register may read
WhoAmIValues == {DEVICE_ID, 0, 208, 255}

\* mode bytes handed to acc_power_mode and to the gyro_power_mode setter
AccModeInputs == {ACC_POWER_SUSPEND, ACC_POWER_NORMAL, ACC_POWER_LOWPOWER, 0}
GyroModeInputs == gyro_power_modes \cup {0, 22}

\* range codes handed to the range setters
AccRangeInputs == {ACCEL_RANGE_2G, ACCEL_RANGE_4G, ACCEL_RANGE_8G, ACCEL_RANGE_16G, 0, 7}
GyroRangeInputs == 0..5 \cup {8}

\* <<msb, lsb>> pairs the data registers of one axis may return
RawPairs == {<<0, 0>>, <<32, 0>>, <<128, 1>>}
RawData == [x : RawPairs, y : RawPairs, z : RawPairs]

\* values handed to the setters of the configuration fields
UsInputs == {0, 1, 2}
BwpInputs == {0, 1, 2}
OdrInputs == {0, 1, 6, 8, 12, 13, 17}
GyroBwpInputs == 0..4

\* bytes ACC_CONF and GYRO_CONF hold when a configuration scenario starts
ConfFillBytes == {0, 40, 165, 255}

\* bytes the ERR and PMU_STATUS registers may return
StatusBytes == 0..255

\* <<msb, lsb>> pairs the temperature registers may return
TempPairs == {<<0, 0>>, <<0, 1>>, <<1, 255>>, <<2, 0>>, <<127, 255>>, <<128, 0>>, <<255, 255>>}

\* calls made in one configuration scenario
MaxCalls == 3

---------------------------------------------------------------------------
(* Actions.                                                                *)

Done(op, arg, o) ==
  /\ call' = [op |-> op, arg |-> arg]
  /\ result' = o.res
  /\ busLog' = o.log
  /\ printed' = o.out
  /\ reg' = o.reg
  /\ pre' = reg

Init ==
  /\ phase = "absent"
  /\ \E f \in FillBytes : reg = [a \in ConfigRegs |-> IF a = COMMAND THEN 0 ELSE f]
  /\ pre = reg
  /\ call = [op |-> "none", arg |-> 0]
  /\ result = Ok(PyNone)
  /\ busLog = <<>>
  /\ printed = <<>>
  /\ ncalls = 0
  /\ lastAccRange = -1
  /\ lastOdr = [acc |-> -1, gyro |-> -1, accOther |-> FALSE, gyroOther |-> FALSE]

Construct ==
  /\ phase = "absent"
  /\ \E id \in WhoAmIValues :
       LET o == init(reg, id)
       IN /\ Done("init", id, o)
          /\ phase' = IF o.res.kind = "ok" THEN "ready" ELSE "failed"
  /\ UNCHANGED <<ncalls, lastAccRange, lastOdr>>

SoftReset ==
  /\ phase = "ready"
  /\ Done("soft_reset", 0, soft_reset(reg))
  /\ UNCHANGED <<phase, ncalls, lastAccRange, lastOdr>>

AccPowerMode ==
  /\ phase = "ready"
  /\ \E v \in AccModeInputs : Done("acc_power_mode", v, acc_power_mode(reg, v))
  /\ UNCHANGED <<phase, ncalls, lastAccRange, lastOdr>>

GyroPowerModeSet ==
  /\ phase = "ready"
  /\ \E v \in GyroModeInputs : Done("gyro_power_mode_set", v, gyro_power_mode_setter(reg, v))
  /\ UNCHANGED <<phase, ncalls, lastAccRange, lastOdr>>

GyroPowerModeGet ==
  /\ phase = "ready"
  /\ Done("gyro_power_mode_get", 0, gyro_power_mode_getter(reg))
  /\ UNCHANGED <<phase, ncalls, lastAccRange, lastOdr>>

AccRangeGet ==
  /\ phase = "ready"
  /\ Done("acceleration_range_get", 0, acceleration_range_getter(reg))
  /\ UNCHANGED <<phase, ncalls, lastAccRange, lastOdr>>

AccRangeSet ==
  /\ phase = "ready"
  /\ \E v \in AccRangeInputs :
       /\ Done("acceleration_range_set", v, acceleration_range_setter(reg, v))
       /\ lastAccRange' = v
  /\ UNCHANGED <<phase, ncalls, lastOdr>>

GyroRangeGet ==
  /\ phase = "ready"
  /\ Done("gyro_range_get", 0, gyro_range_getter(reg))
  /\ UNCHANGED <<phase, ncalls, lastAccRange, lastOdr>>

GyroRangeSet ==
  /\ phase = "ready"
  /\ \E v \in GyroRangeInputs : Done("gyro_range_set", v, gyro_range_setter(reg, v))
  /\ UNCHANGED <<phase, ncalls, lastAccRange, lastOdr>>

Acceleration ==
  /\ phase = "ready"
  /\ \E o \in {acceleration(reg, d) : d \in RawData} : Done("acceleration", 0, o)
  /\ UNCHANGED <<phase, ncalls, lastAccRange, lastOdr>>

Gyro ==
  /\ phase = "ready"
  /\ \E o \in {gyro(reg, d) : d \in RawData} : Done("gyro", 0, o)
  /\ UNCHANGED <<phase, ncalls, lastAccRange, lastOdr>>

\* Construction, reset, power modes and the range setters.
Next ==
  \/ Construct
  \/ SoftReset
  \/ AccPowerMode
  \/ GyroPowerModeSet
  \/ GyroPowerModeGet
  \/ AccRangeSet
  \/ GyroRangeSet

Spec == Init /\ [][Next]_vars

---------------------------------------------------------------------------
(* Measurement scenarios: a driver just constructed, then range changes    *)
(* and reads of the accelerometer and the gyroscope.                       *)

\* the state right after a successful __init__ on registers filled with f
Constructed(f) ==
  LET r0 == [a \in ConfigRegs |-> IF a = COMMAND THEN 0 ELSE f]
      o == init(r0, DEVICE_ID)
  IN /\ phase = "ready"
     /\ pre = r0
     /\ reg = o.reg
     /\ result = o.res
     /\ busLog = o.log
     /\ printed = <<>>
     /\ call = [op |-> "init", arg |-> DEVICE_ID]
     /\ ncalls = 0
     /\ lastAccRange = -1
     /\ lastOdr = [acc |-> -1, gyro |-> -1, accOther |-> FALSE, gyroOther |-> FALSE]

InitMeas == \E f \in FillBytes : Constructed(f)

NextMeas ==
  \/ AccRangeGet
  \/ AccRangeSet
  \/ GyroRangeGet
  \/ GyroRangeSet
  \/ Acceleration
  \/ Gyro

SpecMeas == InitMeas /\ [][NextMeas]_vars

---------------------------------------------------------------------------
(* Status scenarios: a driver just constructed, then reads of the error,   *)
(* power-mode-status and temperature registers.                            *)

InitStat == \E f \in FillBytes : Constructed(f)

ErrorCode ==
  /\ phase = "ready"
  /\ \E e \in StatusBytes : Done("error_code", e, error_code(reg, e))
  /\ UNCHANGED <<phase, ncalls, lastAccRange, lastOdr>>

PowerModeStatus ==
  /\ phase = "ready"
  /\ \E v \in StatusBytes : Done("power_mode_status", v, power_mode_status(reg, v))
  /\ UNCHANGED <<phase, ncalls, lastAccRange, lastOdr>>

Temperature ==
  /\ phase = "ready"
  /\ \E t \in TempPairs : Done("temperature", Compose(t[1], t[2]), temperature(reg, t[1], t[2]))
  /\ UNCHANGED <<phase, ncalls, lastAccRange, lastOdr>>

NextStat ==
  \/ ErrorCode
  \/ PowerModeStatus
  \/ Temperature

SpecStat == InitStat /\ [][NextStat]_vars

---------------------------------------------------------------------------
(* Configuration scenarios: a driver just constructed, then at most        *)
(* MaxCalls calls of the configuration accessors.                          *)

InitConf == \E f \in ConfFillBytes : Constructed(f)

Counted ==
  /\ phase = "ready"
  /\ ncalls < MaxCalls
  /\ ncalls' = ncalls + 1
  /\ UNCHANGED <<phase, lastAccRange>>

AccUsGet ==
  /\ Counted
  /\ Done("acceleration_undersample_get", 0, acceleration_undersample_getter(reg))
  /\ UNCHANGED lastOdr

AccUsSet ==
  /\ Counted
  /\ \E v \in UsInputs :
       Done("acceleration_undersample_set", v, acceleration_undersample_setter(reg, v))
  /\ lastOdr' = [lastOdr EXCEPT !.accOther = TRUE]

AccBwpGet ==
  /\ Counted
  /\ Done("acceleration_bandwidth_parameter_get", 0,
          acceleration_bandwidth_parameter_getter(reg))
  /\ UNCHANGED lastOdr

AccBwpSet ==
  /\ Counted
  /\ \E v \in BwpInputs :
       Done("acceleration_bandwidth_parameter_set", v,
            acceleration_bandwidth_parameter_setter(reg, v))
  /\ lastOdr' = [lastOdr EXCEPT !.accOther = TRUE]

AccOdrGet ==
  /\ Counted
  /\ Done("acceleration_output_data_rate_get", 0, acceleration_output_data_rate_getter(reg))
  /\ UNCHANGED lastOdr

AccOdrSet ==
  /\ Counted
  /\ \E v \in OdrInputs :
       /\ Done("acceleration_output_data_rate_set", v,
               acceleration_output_data_rate_setter(reg, v))
       /\ lastOdr' = [lastOdr EXCEPT !.acc = v, !.accOther = FALSE]

GyroOdrGet ==
  /\ Counted
  /\ Done("gyro_output_data_rate_get", 0, gyro_output_data_rate_getter(reg))
  /\ UNCHANGED lastOdr

GyroOdrSet ==
  /\ Counted
  /\ \E v \in OdrInputs :
       /\ Done("gyro_output_data_rate_set", v, gyro_output_data_rate_setter(reg, v))
       /\ lastOdr' = [lastOdr EXCEPT !.gyro = v, !.gyroOther = FALSE]

GyroBwpGet ==
  /\ Counted
  /\ Done("gyro_bandwidth_parameter_get", 0, gyro_bandwidth_parameter_getter(reg))
  /\ UNCHANGED lastOdr

GyroBwpSet ==
  /\ Counted
  /\ \E v \in GyroBwpInputs :
       Done("gyro_bandwidth_parameter_set", v, gyro_bandwidth_parameter_setter(reg, v))
  /\ lastOdr' = [lastOdr EXCEPT !.gyroOther = TRUE]

NextConf ==
  \/ AccUsGet
  \/ AccUsSet
  \/ AccBwpGet
  \/ AccBwpSet
  \/ AccOdrGet
  \/ AccOdrSet
  \/ GyroOdrGet
  \/ GyroOdrSet
  \/ GyroBwpGet
  \/ GyroBwpSet

SpecConf == InitConf /\ [][NextConf]_vars

---------------------------------------------------------------------------
(* Properties.                                                             *)

Writes(log) == {i \in DOMAIN log : log[i].k = "write"}

\* C1: constructing against a device whose WHOAMI reads anything but 0xD1
\* fails with the device-not-found error (RuntimeError), and the failed
\* construction issues no bus write and takes no wait: the only bus event is
\* the identity read, and every register is as it was.
C1_IdMismatchFailsWithoutWrite ==
  (call.op = "init" /\ call.arg # 209) =>
     /\ result.kind = "raise"
     /\ result.err = "RuntimeError"
     /\ phase = "failed"
     /\ Writes(busLog) = {}
     /\ busLog = <<Rd(REG_WHOAMI, call.arg)>>
     /\ reg = pre

C1_Witness ==
  /\ call.op = "init"
  /\ call.arg = 208
  /\ result.kind = "raise"

\* C2: a successful construction reads WHOAMI first, its first bus write is
\* 0xB6 to CMD (0x7E), and every write of 0xB6 to CMD, in the constructor and
\* in every later soft_reset(), is directly followed by a sleep of at least
\* 15 ms, before any further bus event and before the call returns.
C2_ResetThenSettle ==
  (call.op \in {"init", "soft_reset"} /\ result.kind = "ok") =>
     /\ Writes(busLog) # {}
     /\ \A i \in Writes(busLog) :
          (\A j \in Writes(busLog) : i <= j) =>
             /\ busLog[i] = Wr(126, 182)
             /\ call.op = "init" =>
                  /\ i = 2
                  /\ busLog[1] = Rd(REG_WHOAMI, 209)
             /\ call.op = "soft_reset" => i = 1
     /\ \A i \in DOMAIN busLog :
          busLog[i] = Wr(126, 182) =>
             /\ i + 1 \in DOMAIN busLog
             /\ busLog[i + 1].k = "sleep"
             /\ busLog[i + 1].v >= 15

C2_Witness ==
  /\ call.op = "soft_reset"
  /\ result.kind = "ok"
  /\ pre[COMMAND] = ACC_POWER_LOWPOWER
  /\ reg[COMMAND] = RESET_COMMAND

\* C3: acc_power_mode(mode) accepts every mode byte and the gyro_power_mode
\* setter accepts 0x14, 0x15 and 0x17; an accepted call makes exactly one bus
\* transaction, the write of the mode byte to CMD (0x7E), then sleeps at least
\* 100 ms, and changes no other register.
C3_ModeWriteThenWait ==
  /\ call.op = "acc_power_mode" => result.kind = "ok"
  /\ (call.op = "gyro_power_mode_set" /\ call.arg \in {20, 21, 23}) => result.kind = "ok"
  /\ (call.op \in {"acc_power_mode", "gyro_power_mode_set"} /\ result.kind = "ok") =>
        /\ Len(busLog) = 2
        /\ busLog[1] = Wr(126, call.arg)
        /\ busLog[2].k = "sleep"
        /\ busLog[2].v >= 100
        /\ reg = [pre EXCEPT ![COMMAND] = call.arg]

C3_Witness ==
  /\ call.op = "gyro_power_mode_set"
  /\ call.arg = GYRO_POWER_FASTSTARTUP
  /\ result.kind = "ok"
  /\ pre[COMMAND] = ACC_POWER_SUSPEND

\* C4: the gyro_power_mode setter with a code outside {0x14, 0x15, 0x17} and
\* the gyro_range setter with a code outside {0, 1, 2, 3, 4} raise ValueError
\* before any bus transaction: the call makes no bus event at all (no read, no
\* write, no sleep) and every register keeps its value.
C4_GyroSettersRejectBeforeBus ==
  (\/ call.op = "gyro_power_mode_set" /\ call.arg \notin {20, 21, 23}
   \/ call.op = "gyro_range_set" /\ call.arg \notin 0..4) =>
     /\ result.kind = "raise"
     /\ result.err = "ValueError"
     /\ busLog = <<>>
     /\ reg = pre

C4_Witness ==
  /\ call.op = "gyro_range_set"
  /\ call.arg = 5
  /\ result.kind = "raise"
  /\ busLog = <<>>

\* C5: every setter validates its argument before writing: the
\* acceleration_range setter with a code outside {3, 5, 8, 12}, acc_power_mode
\* with a code outside {0x10, 0x11, 0x12} and the output-data-rate setters with
\* a code outside their tables (accel 1..12, gyro 6..13) raise ValueError and
\* issue no bus write, so a call of the acceleration_range setter leaves in
\* ACC_RANGE a key of the acceleration scale table or what was there before.
C5_EverySetterValidates ==
  /\ (\/ call.op = "acceleration_range_set" /\ call.arg \notin {3, 5, 8, 12}
      \/ call.op = "acc_power_mode" /\ call.arg \notin {16, 17, 18}
      \/ call.op = "acceleration_output_data_rate_set" /\ call.arg \notin 1..12
      \/ call.op = "gyro_output_data_rate_set" /\ call.arg \notin 6..13) =>
        /\ result.kind = "raise"
        /\ result.err = "ValueError"
        /\ Writes(busLog) = {}
        /\ reg = pre
  /\ call.op = "acceleration_range_set" =>
        \/ reg[ACC_RANGE] % 16 \in {3, 5, 8, 12}
        \/ reg[ACC_RANGE] = pre[ACC_RANGE]

\* The fields of ACC_CONF (0x40) and GYRO_CONF (0x42): setter, register,
\* width, lowest bit.
C6_Fields ==
  { [set |-> "acceleration_undersample_set", addr |-> 64, n |-> 1, lo |-> 7],
    [set |-> "acceleration_bandwidth_parameter_set", addr |-> 64, n |-> 1, lo |-> 6],
    [set |-> "acceleration_output_data_rate_set", addr |-> 64, n |-> 4, lo |-> 0],
    [set |-> "gyro_bandwidth_parameter_set", addr |-> 66, n |-> 2, lo |-> 4],
    [set |-> "gyro_output_data_rate_set", addr |-> 66, n |-> 4, lo |-> 0] }

\* the bits of byte b outside the span of n bits starting at bit lo
C6_Outside(b, n, lo) == b - ((b \div 2^lo) % 2^n) * 2^lo

\* C6: for every prior register byte and every value handed to the setter of
\* a field of ACC_CONF or GYRO_CONF, the bits of the register outside the
\* field's span are the same after the call as before, and no other register
\* changes.
C6_SiblingBitsKept ==
  \A f \in C6_Fields :
     call.op = f.set =>
        /\ C6_Outside(reg[f.addr], f.n, f.lo) = C6_Outside(pre[f.addr], f.n, f.lo)
        /\ \A a \in ConfigRegs \ {f.addr} : reg[a] = pre[a]

\* the range each gyro range code stands for
C7_GyroRangeName ==
  (0 :> "GYRO_RANGE_2000") @@ (1 :> "GYRO_RANGE_1000") @@ (2 :> "GYRO_RANGE_500") @@
  (3 :> "GYRO_RANGE_250") @@ (4 :> "GYRO_RANGE_125")

\* C7: for every legal range code r, a range getter called right after the
\* setter was given r reports r (the code, or for the gyroscope the name of the
\* range r stands for), and a measurement taken right after the setter was
\* given r divides by the table entry for r (accel 16384, 8192, 4096, 2048;
\* gyro 16.4, 32.8, 65.6, 131.2, 262.4, here times ten).
C7_RangeRoundTrip ==
  [][ /\ (call.op = "acceleration_range_set" /\ call.arg \in {3, 5, 8, 12}
            /\ call'.op = "acceleration_range_get") =>
           /\ result'.kind = "ok"
           /\ result'.val = PyInt(call.arg)
      /\ (call.op = "gyro_range_set" /\ call.arg \in 0..4
            /\ call'.op = "gyro_range_get") =>
           /\ result'.kind = "ok"
           /\ result'.val \in {PyInt(call.arg), PyStr(C7_GyroRangeName[call.arg])}
      /\ (call.op = "acceleration_range_set" /\ call.arg \in {3, 5, 8, 12}
            /\ call'.op = "acceleration") =>
           /\ result'.kind = "ok"
           /\ \A k \in 1..3 :
                result'.val.xyz[k].den =
                   ((3 :> 16384) @@ (5 :> 8192) @@ (8 :> 4096) @@ (12 :> 2048))[call.arg]
      /\ (call.op = "gyro_range_set" /\ call.arg \in 0..4 /\ call'.op = "gyro") =>
           /\ result'.kind = "ok"
           /\ \A k \in 1..3 :
                result'.val.xyz[k].den =
                   ((0 :> 164) @@ (1 :> 328) @@ (2 :> 656) @@ (3 :> 1312) @@ (4 :> 2624))[call.arg]
    ]_vars

\* the composite msb * 256 + lsb of axis k (1, 2, 3) in the log of a
\* measurement: the range read, then msb and lsb of x, y and z
AxisRaw(log, k) == log[2 * k].v * 256 + log[2 * k + 1].v

\* C8: gyro() succeeds whenever GYRO_RANGE holds a legal code r in 0..4: it
\* reads GYRO_RANGE and the six data registers 0x0C-0x11 and returns, per axis,
\* msb * 256 + lsb divided by the scale for r (16.4, 32.8, 65.6, 131.2, 262.4).
C8_GyroSucceeds ==
  (call.op = "gyro" /\ pre[GYRO_RANGE] % 8 \in 0..4) =>
     /\ result.kind = "ok"
     /\ Len(busLog) = 7
     /\ \A k \in 1..3 :
          /\ busLog[2 * k].k = "read"
          /\ busLog[2 * k].a = 11 + 2 * k
          /\ busLog[2 * k + 1].k = "read"
          /\ busLog[2 * k + 1].a = 10 + 2 * k
          /\ result.val.xyz[k] =
               Quot(AxisRaw(busLog, k) * 10,
                    ((0 :> 164) @@ (1 :> 328) @@ (2 :> 656) @@ (3 :> 1312) @@ (4 :> 2624))
                       [pre[GYRO_RANGE] % 8])

\* C9: a measurement that returns reads each axis as a signed 16-bit value: an
\* axis whose composite c = msb * 256 + lsb is at least 32768 is converted from
\* c - 65536, so its quotient has a negative numerator (times ten for the
\* gyroscope, whose divisors are kept times ten).
C9_SignedReadings ==
  (call.op \in {"acceleration", "gyro"} /\ result.kind = "ok") =>
     \A k \in 1..3 :
        AxisRaw(busLog, k) >= 32768 =>
           /\ result.val.xyz[k].num < 0
           /\ result.val.xyz[k].num =
                (AxisRaw(busLog, k) - 65536) * (IF call.op = "gyro" THEN 10 ELSE 1)

\* the divisors of the claim: 2G, 4G, 8G, 16G
C10_Divisor == (3 :> 16384) @@ (5 :> 8192) @@ (8 :> 4096) @@ (12 :> 2048)

\* C10: with a legal range r in ACC_RANGE, acceleration() reads ACC_RANGE and
\* the six data registers (msb before lsb, x, y, z), writes nothing, and
\* returns per axis (msb * 256 + lsb) / divisor(r); with 4G a composite of 8192
\* is exactly 1 and a composite of 0 is exactly 0; and when the last value
\* given to the range setter is legal, the divisor is the one of that value.
C10_AccelerationScaled ==
  call.op = "acceleration" =>
     /\ pre[ACC_RANGE] % 16 \in {3, 5, 8, 12} =>
          /\ result.kind = "ok"
          /\ Len(busLog) = 7
          /\ busLog[1] = Rd(65, pre[ACC_RANGE])
          /\ reg = pre
          /\ \A k \in 1..3 :
               /\ busLog[2 * k].k = "read"
               /\ busLog[2 * k].a = 17 + 2 * k
               /\ busLog[2 * k + 1].k = "read"
               /\ busLog[2 * k + 1].a = 16 + 2 * k
               /\ result.val.xyz[k] =
                    Quot(AxisRaw(busLog, k), C10_Divisor[pre[ACC_RANGE] % 16])
               /\ (pre[ACC_RANGE] % 16 = 5 /\ AxisRaw(busLog, k) = 8192) =>
                    result.val.xyz[k].num = 1 * result.val.xyz[k].den
               /\ AxisRaw(busLog, k) = 0 => result.val.xyz[k].num = 0
     /\ lastAccRange \in {3, 5, 8, 12} =>
          /\ result.kind = "ok"
          /\ \A k \in 1..3 : result.val.xyz[k].den = C10_Divisor[lastAccRange]

C10_Witness ==
  /\ call.op = "acceleration"
  /\ lastAccRange = 5
  /\ result.kind = "ok"
  /\ result.val.xyz[1] = Quot(8192, 8192)
  /\ result.val.xyz[2] = Quot(0, 8192)
  /\ result.val.xyz[3] = Quot(32769, 8192)

\* C11: for every legal output-data-rate code c in 1..12, after the accel
\* (gyro) rate setter was last given c, the accel (gyro) rate getter returns c,
\* whatever ACC_CONF (GYRO_CONF) held before and whatever setters of the other
\* configuration fields were called since; the getter is one read of the
\* register and writes nothing.
C11_OdrRoundTrip ==
  /\ (call.op = "acceleration_output_data_rate_get" /\ lastOdr.acc \in 1..12) =>
        /\ result = Ok(PyInt(lastOdr.acc))
        /\ busLog = <<Rd(64, pre[ACCEL_CONFIG])>>
        /\ reg = pre
  /\ (call.op = "gyro_output_data_rate_get" /\ lastOdr.gyro \in 1..12) =>
        /\ result = Ok(PyInt(lastOdr.gyro))
        /\ busLog = <<Rd(66, pre[GYRO_CONFIG])>>
        /\ reg = pre
  /\ (call.op = "acceleration_output_data_rate_set" /\ call.arg \in 1..12) =>
        reg[ACCEL_CONFIG] % 16 = call.arg
  /\ (call.op = "gyro_output_data_rate_set" /\ call.arg \in 1..12) =>
        reg[GYRO_CONFIG] % 16 = call.arg

\* the rate 12 set on GYRO_CONF = 0x00, then the gyro bandwidth parameter set
\* to 4 (GYRO_CONF = 0x4C), then the rate read back
C11_Witness ==
  /\ call.op = "gyro_output_data_rate_get"
  /\ lastOdr.gyro = 12
  /\ lastOdr.gyroOther
  /\ reg[GYRO_CONFIG] = 76
  /\ result = Ok(PyInt(12))

\* the fields of a status byte as the datasheet lays them out
Bits(b, lo, n) == (b \div Pow2(lo)) % Pow2(n)

\* C12: for every byte e of the ERR register, error_code() is one read of
\* register 0x02 and no write; when the code in bits 1-4 is one of 0, 1, 2, 3,
\* 6, 7 it returns the decode (dropped command = bit 6, code = bits 1-4,
\* fatal = bit 0), otherwise it fails with the unknown-error-code error; it
\* never fails with the table lookup's KeyError.
C12_ErrorCodeDecodes ==
  call.op = "error_code" =>
     /\ busLog = <<Rd(2, call.arg)>>
     /\ reg = pre
     /\ result.err # "KeyError"
     /\ IF Bits(call.arg, 1, 4) \in {0, 1, 2, 3, 6, 7}
        THEN result = Ok(PyTuple(Bits(call.arg, 6, 1), Bits(call.arg, 1, 4), Bits(call.arg, 0, 1)))
        ELSE result = Raise("UnknownErrorCode")

\* the three state names of the accelerometer and magnetometer, and of the
\* gyroscope, by field value
C13_PmuName == <<"Suspend", "Normal", "Low Power">>
C13_GyrName == (0 :> "Suspend") @@ (1 :> "Normal") @@ (3 :> "Fast Start - Up")

\* C13: for every PMU_STATUS byte v, power_mode_status() reports the
\* accelerometer state named by bits 4-5 of v (0 Suspend, 1 Normal, 2 Low
\* Power), the gyroscope state named by bits 2-3 and the magnetometer state
\* named by bits 0-1, each whenever its own field holds a defined state and
\* whatever the other bits are.
C13_FieldsDecoded ==
  call.op = "power_mode_status" =>
     /\ busLog = <<Rd(3, call.arg)>>
     /\ Bits(call.arg, 4, 2) \in 0..2 =>
           \E k \in DOMAIN printed :
              printed[k] = <<"Acceleration Power Mode: ", C13_PmuName[Bits(call.arg, 4, 2) + 1]>>
     /\ Bits(call.arg, 2, 2) \in {0, 1, 3} =>
           \E k \in DOMAIN printed :
              printed[k] = <<"Gyro Power Mode", C13_GyrName[Bits(call.arg, 2, 2)]>>
     /\ Bits(call.arg, 0, 2) \in 0..2 =>
           \E k \in DOMAIN printed :
              printed[k] = <<"Mag Power Mode", C13_PmuName[Bits(call.arg, 0, 2) + 1]>>

\* the composite the two temperature reads of a call returned
C14_Raw == busLog[1].v * 256 + busLog[2].v

\* C14: temperature() reads TEMP_MSB (0x21) and TEMP_LSB (0x20) once each,
\* writes nothing, and returns (msb * 256 + lsb) / 512 + 23: exactly 23 for
\* the composite 0 and exactly 24 for the composite 512.
C14_Temperature ==
  call.op = "temperature" =>
     /\ Len(busLog) = 2
     /\ Writes(busLog) = {}
     /\ {<<busLog[1].k, busLog[1].a>>, <<busLog[2].k, busLog[2].a>>} = {<<"read", 33>>, <<"read", 32>>}
     /\ busLog[1].a = 33
     /\ reg = pre
     /\ result.kind = "ok"
     /\ result.val.t = "float"
     /\ result.val.xyz[1].den > 0
     /\ result.val.xyz[1].num * 512 = (C14_Raw + 23 * 512) * result.val.xyz[1].den
     /\ C14_Raw = 0 => result.val.xyz[1].num = 23 * result.val.xyz[1].den
     /\ C14_Raw = 512 => result.val.xyz[1].num = 24 * result.val.xyz[1].den

\* TEMP_MSB = 0x02 and TEMP_LSB = 0x00, the composite 512, read as 24
C14_Witness ==
  /\ call.op = "temperature"
  /\ busLog = <<Rd(33, 2), Rd(32, 0)>>
  /\ result.val.xyz[1].num = 24 * result.val.xyz[1].den
  /\ reg = pre

\* C15: after a successful construction and any sequence of resets and power
\* mode calls, reading gyro_power_mode succeeds: it is one read of PMU_STATUS
\* (0x03), never a read of CMD (0x7E), it writes nothing and returns a mode
\* name, whatever byte was written to CMD last.
C15_GyroModeReadFromStatus ==
  call.op = "gyro_power_mode_get" =>
     /\ result.kind = "ok"
     /\ result.val.t = "str"
     /\ Len(busLog) = 1
     /\ busLog[1].k = "read"
     /\ busLog[1].a = 3
     /\ reg = pre

\* the bytes a call wrote, in order, and the indices of its writes
C16_WriteIdx == {i \in DOMAIN busLog : busLog[i].k = "write"}
C16_Written == SelectSeq(busLog, LAMBDA e : e.k = "write")

\* C16: a successful construction writes exactly four bytes, all to CMD
\* (0x7E) and in the order 0xB6, 0x03, 0x11, 0x15; the event right after the
\* write of 0xB6 is a sleep of at least 15 ms and the event right after each
\* other write is a sleep of at least 100 ms; ACC_CONF, ACC_RANGE, GYRO_CONF
\* and GYRO_RANGE are not written and hold what they held; CMD ends at 0x15.
C16_ConstructionCommands ==
  (call.op = "init" /\ result.kind = "ok") =>
     /\ C16_Written = <<Wr(126, 182), Wr(126, 3), Wr(126, 17), Wr(126, 21)>>
     /\ \A i \in C16_WriteIdx :
          /\ i + 1 \in DOMAIN busLog
          /\ busLog[i + 1].k = "sleep"
          /\ busLog[i + 1].v >= (IF busLog[i].v = 182 THEN 15 ELSE 100)
     /\ \A a \in {64, 65, 66, 67} : reg[a] = pre[a]
     /\ reg[126] = 21

\* a construction that succeeded over configuration registers holding 0xFF
C16_Witness ==
  /\ call.op = "init"
  /\ result.kind = "ok"
  /\ Len(busLog) = 9
  /\ Cardinality(C16_WriteIdx) = 4
  /\ pre[ACC_RANGE] = 255
  /\ reg[ACC_RANGE] = 255

=============================================================================
